---- MODULE Spec2Model ----
(***************************************************************************)
(* ModelCheckpoint (pytorch_lightning/callbacks/model_checkpoint.py): the  *)
(* checkpoint retention policy as a state machine.  One participant (the   *)
(* primary, rank 0) drives the callback; the host trainer, the metrics it  *)
(* reports and the storage backend are the environment.                    *)
(***************************************************************************)
EXTENDS Integers, Sequences, FiniteSets, TLC

VARIABLES
    cb,        \* the ModelCheckpoint object (self)
    fs,        \* storage backend: the set of paths that exist (self._fs)
    trainer,   \* host trainer: global_step, current_epoch
    calls,     \* number of save_checkpoint executions so far (bounds the run)
    produced_at,  \* the global step at which a checkpoint file was last written, or -1
    ev,        \* the last event handled: its inputs and what it did
    peers,     \* the other participants' ModelCheckpoint objects, by rank (what differs: dirpath)
    call       \* a direct call of a constructor or class method: its arguments and its outcome

vars == <<cb, fs, trainer, calls, produced_at, ev, peers, call>>

----------------------------------------------------------------------------
(* Bounds of the model *)

MaxCalls == 3      \* save_checkpoint executions per run
MaxStep == 1       \* trainer.global_step ranges over 0..MaxStep
MaxEpoch == 1      \* trainer.current_epoch ranges over 0..MaxEpoch
MaxScore == 2      \* finite monitored values range over 1..MaxScore
MaxTopK == 2       \* finite save_top_k ranges over 0..MaxTopK
MaxEveryN == 2     \* trigger cadences range over 0..MaxEveryN
MaxPeers == 1      \* participants other than the primary one (rank 0)

----------------------------------------------------------------------------
(* Python values *)

\* Optional[T]: None is the empty tuple, a value x is <<x>>.
None == <<>>
Some(x) == <<x>>
IsNone(o) == o = <<>>
Val(o) == o[1]

\* A monitored value: a float, finite or not, held as a torch.Tensor
\* (tensor = TRUE) or as a plain Python number (tensor = FALSE).
Num(n, t) == [kind |-> "num", n |-> n, tensor |-> t]
NaN(t) == [kind |-> "nan", n |-> 0, tensor |-> t]
PosInf(t) == [kind |-> "inf", n |-> 0, tensor |-> t]
NegInf(t) == [kind |-> "-inf", n |-> 0, tensor |-> t]

\* IEEE-754 a < b, as torch.lt and Python's < compute it: false when either
\* side is NaN.  The representation (tensor or plain) does not matter.
Lt(a, b) ==
    CASE a.kind = "nan" \/ b.kind = "nan" -> FALSE
      [] a.kind = "-inf" -> b.kind # "-inf"
      [] a.kind = "inf" -> FALSE
      [] b.kind = "-inf" -> FALSE
      [] b.kind = "inf" -> TRUE
      [] OTHER -> a.n < b.n

Gt(a, b) == Lt(b, a)

isnan(x) == x.kind = "nan"

\* A file path.  dir is the directory ("" when dirpath is None: a bare file
\* name); stem tells which template rendered the name; epoch and step are
\* the values rendered into it (-1 when the template has no such
\* placeholder); ver is the "-v<n>" suffix, None when there is none.
\* The empty string "" is EmptyPath.
EmptyPath == [dir |-> "", stem |-> "", epoch |-> -1, step |-> -1, ver |-> None]

Path(dir, stem, epoch, step, ver) ==
    [dir |-> dir, stem |-> stem, epoch |-> epoch, step |-> step, ver |-> ver]

\* dict path -> score in insertion order: a sequence of items.
Keys(d) == {d[i].path : i \in 1..Len(d)}
Has(d, p) == \E i \in 1..Len(d) : d[i].path = p
Get(d, p) == d[CHOOSE i \in 1..Len(d) : d[i].path = p].score
Pop(d, p) == SelectSeq(d, LAMBDA it : it.path # p)
\* d[p] = s: an existing key keeps its position, a new key goes last.
Put(d, p, s) ==
    IF Has(d, p)
    THEN [i \in 1..Len(d) |-> IF d[i].path = p THEN [path |-> p, score |-> s] ELSE d[i]]
    ELSE Append(d, [path |-> p, score |-> s])

\* Python's max(d, key=d.get) / min(d, key=d.get): the first key, in
\* insertion order, that no later key beats under > (max) or < (min).
\* op = "max" keeps the running item unless the next one is > it; op = "min"
\* unless the next one is < it.
Beats(op, a, b) == IF op = "max" THEN Gt(a, b) ELSE Lt(a, b)

RECURSIVE ArgBest(_, _, _, _)
ArgBest(d, i, best, op) ==
    IF i > Len(d) THEN d[best].path
    ELSE ArgBest(d, i + 1, IF Beats(op, d[i].score, d[best].score) THEN i ELSE best, op)

PyMax(d) == ArgBest(d, 2, 1, "max")
PyMin(d) == ArgBest(d, 2, 1, "min")

----------------------------------------------------------------------------
(* Class constants *)

STARTING_VERSION == 1

\* The filename templates of the model: the default one (filename unset)
\* and a user template naming the epoch alone.
DefaultTemplate == "{epoch}-{step}"
EpochTemplate == "{epoch}"
LastTemplate == "last"

\* re.findall(r"(\{.*?)[:\}]", filename): the placeholder names of a template.
Groups(filename) ==
    CASE filename = DefaultTemplate -> {"epoch", "step"}
      [] filename = EpochTemplate -> {"epoch"}
      [] OTHER -> {}

----------------------------------------------------------------------------
(* The metrics the host reports (trainer.logger_connector.callback_metrics): *)
(* a mapping with at most the keys val_loss and val_acc; an absent key is    *)
(* None.                                                                     *)

NoMetrics == [val_loss |-> None, val_acc |-> None]
In(key, metrics) == ~IsNone(metrics[key])
MetricsLen(metrics) == Cardinality({k \in DOMAIN metrics : In(k, metrics)})
\* dict.get(key): the value, or None
MetricsGet(metrics, key) == IF key \in DOMAIN metrics THEN metrics[key] ELSE None

----------------------------------------------------------------------------
(* Construction: ModelCheckpoint.__init__ *)

\* Mutant of __init_triggers: the deprecated period alias is ignored.
init_triggers_ignoring_period(every_n_train_steps, every_n_val_epochs, period) ==
    LET both_unset == IsNone(every_n_train_steps) /\ IsNone(every_n_val_epochs)
    IN  [every_n_train_steps |->
             IF both_unset \/ IsNone(every_n_train_steps) THEN 0 ELSE Val(every_n_train_steps),
         every_n_val_epochs |->
             IF both_unset THEN 1
             ELSE IF IsNone(every_n_val_epochs) THEN 0 ELSE Val(every_n_val_epochs)]

\* __init_triggers: the two cadences from the constructor arguments.
init_triggers(every_n_train_steps, every_n_val_epochs, period) ==
    LET both_unset == IsNone(every_n_train_steps) /\ IsNone(every_n_val_epochs)
        val0 == IF both_unset THEN 1
                ELSE IF IsNone(every_n_val_epochs) THEN 0 ELSE Val(every_n_val_epochs)
        train0 == IF both_unset THEN 0
                  ELSE IF IsNone(every_n_train_steps) THEN 0 ELSE Val(every_n_train_steps)
    IN  [every_n_train_steps |-> train0,
         every_n_val_epochs |-> IF IsNone(period) THEN val0 ELSE Val(period)]

\* __validate_init_configuration: TRUE when it raises MisconfigurationException.
validate_init_configuration(self) ==
    \/ ~IsNone(self.save_top_k) /\ Val(self.save_top_k) < -1
    \/ self.every_n_train_steps < 0
    \/ self.every_n_val_epochs < 0
    \/ self.every_n_train_steps > 0 /\ self.every_n_val_epochs > 0
    \/ IsNone(self.monitor) /\ self.save_top_k \notin {None, Some(-1), Some(0)}

\* __init_monitor_mode: TRUE when it raises MisconfigurationException
init_monitor_mode_raises(mode) == mode \notin {"min", "max"}

\* __init_monitor_mode: the initial kth_value; mode is "min" or "max".
init_monitor_mode(mode) == IF mode = "min" THEN PosInf(TRUE) ELSE NegInf(TRUE)

\* __init__: the object after construction.
init(dirpath, filename, monitor, save_last, save_top_k, mode, every_n_train_steps, every_n_val_epochs, period) ==
    LET trig == init_triggers(every_n_train_steps, every_n_val_epochs, period)
    IN  [monitor |-> monitor,
         save_last |-> save_last,
         save_top_k |-> save_top_k,
         last_global_step_saved |-> -1,
         current_score |-> None,
         best_k_models |-> <<>>,
         kth_best_model_path |-> EmptyPath,
         best_model_score |-> None,
         best_model_path |-> EmptyPath,
         last_model_path |-> EmptyPath,
         save_function |-> FALSE,
         kth_value |-> init_monitor_mode(mode),
         mode |-> mode,
         dirpath |-> dirpath,
         filename |-> filename,
         every_n_train_steps |-> trig.every_n_train_steps,
         every_n_val_epochs |-> trig.every_n_val_epochs]

\* __init__ called with the arguments a (a record, one field per argument)
new(a) ==
    init(a.dirpath, a.filename, a.monitor, a.save_last, a.save_top_k, a.mode,
         a.every_n_train_steps, a.every_n_val_epochs, a.period)

\* __init__: the exception it raises, "" when the object is constructed
new_raises(a) ==
    IF init_monitor_mode_raises(a.mode) THEN "MisconfigurationException"
    ELSE IF validate_init_configuration(new(a)) THEN "MisconfigurationException"
    ELSE ""

----------------------------------------------------------------------------
(* Saving and deleting files.  A world w is the object, the storage, the   *)
(* exception raised so far ("" for none), the file operations done by the  *)
(* call in order, and what top-K mode decided in the call.                  *)

NoTopK == [active |-> FALSE, accepted |-> FALSE, current |-> None, k |-> 0,
           del_filepath |-> None, filepath |-> EmptyPath]

World(self, files) ==
    [self |-> self, fs |-> files, raised |-> "", io |-> <<>>, topk |-> NoTopK,
     rank |-> 0, primary |-> files]

\* the world of the participant of rank rank (not 0): fs is the storage it
\* sees itself, primary the storage the primary participant sees
PeerWorld(self, rank, files, primary) ==
    [World(self, files) EXCEPT !.rank = rank, !.primary = primary]

\* training_type_plugin.broadcast: every participant receives what the
\* primary participant (rank 0) sent
broadcast(sent) == sent[0]

\* Mutant of _del_model: not rank_zero_only.
del_model_on_any_rank(w, filepath) ==
    IF filepath \in w.fs
    THEN [w EXCEPT !.fs = @ \ {filepath},
                   !.io = Append(@, [op |-> "rm", path |-> filepath])]
    ELSE w

\* _del_model (rank_zero_only: on another rank the call does nothing)
del_model(w, filepath) ==
    IF w.rank # 0 THEN w
    ELSE IF filepath \in w.fs
    THEN [w EXCEPT !.fs = @ \ {filepath},
                   !.io = Append(@, [op |-> "rm", path |-> filepath])]
    ELSE w

\* _do_save: the trainer's save function is called, or ValueError; the save
\* function writes the file on rank 0 only ("saving only on rank 0")
do_save(w, filepath) ==
    IF w.self.save_function
    THEN [w EXCEPT !.fs = IF w.rank = 0 THEN @ \cup {filepath} ELSE @,
                   !.io = Append(@, [op |-> "save", path |-> filepath])]
    ELSE [w EXCEPT !.raised = "ValueError"]

\* _save_model (no RPC plugin)
save_model(w, filepath) == do_save(w, filepath)

\* file_exists: fs.exists, broadcast from rank 0
file_exists(files, filepath) == filepath \in files

\* Mutant of file_exists: the participant's own answer is returned.
existing_locally(w) == w.fs

\* the paths file_exists answers True for: every participant asks its own
\* storage and broadcast returns the answer of rank 0
existing(w) ==
    broadcast([r \in {0, w.rank} |-> IF r = w.rank THEN w.fs ELSE w.primary])

----------------------------------------------------------------------------
(* Filenames *)

\* format_checkpoint_name: the path rendered from the template
format_checkpoint_name(self, epoch, step, ver) ==
    LET filename == IF IsNone(self.filename) THEN DefaultTemplate ELSE Val(self.filename)
        groups == Groups(filename)
    IN  Path(IF IsNone(self.dirpath) THEN "" ELSE Val(self.dirpath),
             filename,
             IF "epoch" \in groups THEN epoch ELSE -1,
             IF "step" \in groups THEN step ELSE -1,
             ver)

\* Mutant of file_exists_elsewhere: the deletion candidate is not excluded.
file_exists_anywhere(files, filepath, del_filepath) == file_exists(files, filepath)

\* the loop condition of _get_metric_interpolated_filepath_name
file_exists_elsewhere(files, filepath, del_filepath) ==
    file_exists(files, filepath) /\ Some(filepath) # del_filepath

\* the while loop of _get_metric_interpolated_filepath_name
RECURSIVE version_loop(_, _, _, _, _, _, _)
version_loop(self, files, epoch, step, del_filepath, filepath, version_cnt) ==
    IF file_exists_elsewhere(files, filepath, del_filepath)
    THEN version_loop(self, files, epoch, step, del_filepath,
                      format_checkpoint_name(self, epoch, step, Some(version_cnt)),
                      version_cnt + 1)
    ELSE filepath

\* _get_metric_interpolated_filepath_name
get_metric_interpolated_filepath_name(self, files, epoch, step, del_filepath) ==
    version_loop(self, files, epoch, step, del_filepath,
                 format_checkpoint_name(self, epoch, step, None), STARTING_VERSION)

----------------------------------------------------------------------------
(* Retention and ranking *)

\* Mutant of monitor_op: torch.le / torch.ge, a tie with the kth value wins.
monitor_op_or_equal(mode, a, b) ==
    \/ (IF mode = "min" THEN Lt(a, b) ELSE Gt(a, b))
    \/ (a.kind = b.kind /\ a.n = b.n /\ ~isnan(a))

\* monitor_op = {"min": torch.lt, "max": torch.gt}[self.mode]
monitor_op(mode, a, b) == IF mode = "min" THEN Lt(a, b) ELSE Gt(a, b)

\* Mutant of check_monitor_top_k: save_top_k == -1 is not special-cased.
check_monitor_top_k_no_keep_all(self, current) ==
    IF IsNone(current) THEN "False"
    ELSE IF Len(self.best_k_models) < Val(self.save_top_k) THEN "True"
    ELSE IF ~Has(self.best_k_models, self.kth_best_model_path) THEN "KeyError"
    ELSE IF monitor_op(self.mode, [Val(current) EXCEPT !.tensor = TRUE],
                       Get(self.best_k_models, self.kth_best_model_path))
         THEN "True" ELSE "False"

\* check_monitor_top_k: "True", "False", or "KeyError" when
\* kth_best_model_path is no key of best_k_models.  current is Optional.
check_monitor_top_k(self, current) ==
    IF IsNone(current) THEN "False"
    ELSE IF self.save_top_k = Some(-1) THEN "True"
    ELSE IF Len(self.best_k_models) < Val(self.save_top_k) THEN "True"
    ELSE IF ~Has(self.best_k_models, self.kth_best_model_path) THEN "KeyError"
    ELSE IF monitor_op(self.mode, [Val(current) EXCEPT !.tensor = TRUE],
                       Get(self.best_k_models, self.kth_best_model_path))
         THEN "True" ELSE "False"

\* do not save nan, replace with +/- inf (tensors only)
replace_nan(mode, current) ==
    IF current.tensor /\ isnan(current)
    THEN (IF mode = "min" THEN PosInf(TRUE) ELSE NegInf(TRUE))
    ELSE current

\* k of _update_best_and_save: the capacity to fill
capacity(self) ==
    IF self.save_top_k = Some(-1) THEN Len(self.best_k_models) + 1 ELSE Val(self.save_top_k)

\* Mutant of should_evict: the kth entry is never evicted.
should_evict_never(self, k) == FALSE

\* len(self.best_k_models) == k and k > 0: the kth entry is evicted
should_evict(self, k) == Len(self.best_k_models) = k /\ k > 0

\* Mutant of should_delete: the evicted path is removed even when the new
\* checkpoint was just written to it.
should_delete_always(del_filepath, filepath) == ~IsNone(del_filepath)

\* del_filepath is not None and filepath != del_filepath: the evicted file is removed
should_delete(del_filepath, filepath) ==
    ~IsNone(del_filepath) /\ Some(filepath) # del_filepath

\* _update_best_and_save, first part: k, del_filepath and the pop of the
\* kth entry (KeyError when it is no key)
pop_kth(w) ==
    IF ~should_evict(w.self, capacity(w.self))
    THEN [w EXCEPT !.topk.k = capacity(w.self)]
    ELSE IF ~Has(w.self.best_k_models, w.self.kth_best_model_path)
    THEN [w EXCEPT !.raised = "KeyError"]
    ELSE [w EXCEPT !.topk.k = capacity(w.self),
                   !.topk.del_filepath = Some(w.self.kth_best_model_path),
                   !.self.best_k_models = Pop(@, w.self.kth_best_model_path)]

\* _update_best_and_save: the path of the new checkpoint
choose_filepath(w, epoch, step) ==
    IF w.raised # "" THEN w
    ELSE [w EXCEPT !.topk.filepath =
              get_metric_interpolated_filepath_name(w.self, existing(w), epoch, step,
                                                    w.topk.del_filepath)]

\* the kth (worst) entry once the dict has k entries, else as before
rank_kth(self, k) ==
    IF Len(self.best_k_models) # k THEN self
    ELSE [self EXCEPT
             !.kth_best_model_path =
                 IF self.mode = "min" THEN PyMax(self.best_k_models)
                 ELSE PyMin(self.best_k_models),
             !.kth_value =
                 Get(self.best_k_models,
                     IF self.mode = "min" THEN PyMax(self.best_k_models)
                     ELSE PyMin(self.best_k_models))]

\* the best entry
rank_best(self) ==
    [self EXCEPT
        !.best_model_path =
            IF self.mode = "min" THEN PyMin(self.best_k_models)
            ELSE PyMax(self.best_k_models),
        !.best_model_score =
            Some(Get(self.best_k_models,
                     IF self.mode = "min" THEN PyMin(self.best_k_models)
                     ELSE PyMax(self.best_k_models)))]

\* _update_best_and_save: the score is recorded and the entries ranked
track(w, current) ==
    IF w.raised # "" THEN w
    ELSE [w EXCEPT !.self =
              rank_best(rank_kth([@ EXCEPT !.current_score = Some(current),
                                           !.best_k_models =
                                               Put(@, w.topk.filepath, current)],
                                 w.topk.k))]

\* Mutant of _update_best_and_save: the evicted file is left on storage.
delete_evicted_never(w) == w

\* _update_best_and_save: the evicted file is removed after the save
delete_evicted(w) ==
    IF w.raised # "" THEN w
    ELSE IF should_delete(w.topk.del_filepath, w.topk.filepath)
    THEN del_model(w, Val(w.topk.del_filepath))
    ELSE w

\* _update_best_and_save: the new checkpoint is saved
persist(w) == IF w.raised # "" THEN w ELSE save_model(w, w.topk.filepath)

\* Mutant of _update_best_and_save: the evicted file is removed before the
\* new checkpoint is saved.
update_best_and_save_removing_first(w, current, epoch, step) ==
    persist(delete_evicted(track(choose_filepath(pop_kth(w), epoch, step),
                                 replace_nan(w.self.mode, current))))

\* _update_best_and_save: current is a score (not None)
update_best_and_save(w, current, epoch, step) ==
    delete_evicted(persist(track(choose_filepath(pop_kth(w), epoch, step),
                                 replace_nan(w.self.mode, current))))

\* _save_top_k_checkpoint once check_monitor_top_k has decided
decided(w, t, decision) ==
    CASE decision = "KeyError" -> [w EXCEPT !.raised = "KeyError"]
      [] decision = "True" ->
             update_best_and_save([w EXCEPT !.topk.accepted = TRUE],
                                  Val(w.topk.current), t.current_epoch, t.global_step)
      [] OTHER -> w

\* _save_top_k_checkpoint (Mode 1)
save_top_k_checkpoint(w, t) ==
    IF w.raised # "" THEN w
    ELSE IF IsNone(w.self.monitor) \/ w.self.save_top_k = Some(0) THEN w
    ELSE decided([w EXCEPT !.topk.active = TRUE,
                           !.topk.current = MetricsGet(t.metrics, Val(w.self.monitor))],
                 t,
                 check_monitor_top_k(w.self, MetricsGet(t.metrics, Val(w.self.monitor))))

\* the previous file is removed when it is set and differs from the new one
del_previous(w, previous, filepath) ==
    IF previous # EmptyPath /\ previous # filepath THEN del_model(w, previous) ELSE w

\* _save_none_monitor_checkpoint after the path is chosen
save_none_monitor(w, filepath) ==
    IF save_model(w, filepath).raised # "" THEN save_model(w, filepath)
    ELSE [(IF IsNone(w.self.save_top_k)
           THEN del_previous(save_model(w, filepath), w.self.best_model_path, filepath)
           ELSE save_model(w, filepath))
          EXCEPT !.self.best_model_path = filepath]

\* Mutant of _save_none_monitor_checkpoint: the monitor is not tested.
save_none_monitor_checkpoint_any_monitor(w, t) ==
    IF w.raised # "" THEN w
    ELSE IF w.self.save_top_k = Some(0) THEN w
    ELSE save_none_monitor(w, get_metric_interpolated_filepath_name(
                                  w.self, existing(w), t.current_epoch, t.global_step, None))

\* _save_none_monitor_checkpoint (Mode 2)
save_none_monitor_checkpoint(w, t) ==
    IF w.raised # "" THEN w
    ELSE IF ~IsNone(w.self.monitor) \/ w.self.save_top_k = Some(0) THEN w
    ELSE save_none_monitor(w, get_metric_interpolated_filepath_name(
                                  w.self, existing(w), t.current_epoch, t.global_step, None))

\* Mutant of _save_last_checkpoint: last_model_path is not updated.
save_last_unrecorded(w, filepath) ==
    IF save_model(w, filepath).raised # "" THEN save_model(w, filepath)
    ELSE del_previous(save_model(w, filepath), w.self.last_model_path, filepath)

\* _save_last_checkpoint after the path is built
save_last(w, filepath) ==
    IF save_model(w, filepath).raised # "" THEN save_model(w, filepath)
    ELSE [del_previous(save_model(w, filepath), w.self.last_model_path, filepath)
          EXCEPT !.self.last_model_path = filepath]

\* _save_last_checkpoint (Mode 3); os.path.join(None, ...) is a TypeError
save_last_checkpoint(w, t) ==
    IF w.raised # "" THEN w
    ELSE IF ~w.self.save_last THEN w
    ELSE IF IsNone(w.self.dirpath) THEN [w EXCEPT !.raised = "TypeError"]
    ELSE save_last(w, Path(Val(w.self.dirpath), LastTemplate, -1, -1, None))

\* the monitor _add_backward_monitor_support leaves
backward_monitor(self, metrics) ==
    IF IsNone(self.monitor) /\ In("val_loss", metrics) THEN Some("val_loss") ELSE self.monitor

\* Mutant of _add_backward_monitor_support: save_top_k None becomes 1 also
\* when no monitor is set.
add_backward_monitor_support_any(self, metrics) ==
    [self EXCEPT !.monitor = backward_monitor(self, metrics),
                 !.save_top_k = IF IsNone(@) THEN Some(1) ELSE @]

\* _add_backward_monitor_support
add_backward_monitor_support(self, metrics) ==
    [self EXCEPT !.monitor = backward_monitor(self, metrics),
                 !.save_top_k = IF IsNone(@) /\ ~IsNone(backward_monitor(self, metrics))
                                THEN Some(1) ELSE @]

\* _is_valid_monitor_key
is_valid_monitor_key(self, metrics) ==
    In(Val(self.monitor), metrics) \/ MetricsLen(metrics) = 0

\* _validate_monitor_key: TRUE when it raises MisconfigurationException
validate_monitor_key(self, metrics) ==
    ~IsNone(self.monitor) /\ ~is_valid_monitor_key(self, metrics)

\* Mutant of save_checkpoint: the global step is recorded before the
\* monitor key is validated.
validated_save_recording_first(w, t) ==
    IF validate_monitor_key(w.self, t.metrics)
    THEN [w EXCEPT !.raised = "MisconfigurationException",
                   !.self.last_global_step_saved = t.global_step]
    ELSE save_last_checkpoint(
             save_none_monitor_checkpoint(
                 save_top_k_checkpoint(
                     [w EXCEPT !.self.last_global_step_saved = t.global_step], t), t), t)

\* save_checkpoint after _add_backward_monitor_support: the monitor key is
\* validated, the global step recorded, and the three modes run in order
validated_save(w, t) ==
    IF validate_monitor_key(w.self, t.metrics)
    THEN [w EXCEPT !.raised = "MisconfigurationException"]
    ELSE save_last_checkpoint(
             save_none_monitor_checkpoint(
                 save_top_k_checkpoint(
                     [w EXCEPT !.self.last_global_step_saved = t.global_step], t), t), t)

\* save_checkpoint
save_checkpoint(w, t) ==
    validated_save([w EXCEPT !.self = add_backward_monitor_support(@, t.metrics)], t)

\* Mutant of _should_skip_saving_checkpoint: the last saved step is not compared.
should_skip_ignoring_last_step(self, t) ==
    t.fast_dev_run \/ ~t.fitting \/ t.sanity_checking

\* _should_skip_saving_checkpoint
should_skip_saving_checkpoint(self, t) ==
    \/ t.fast_dev_run
    \/ ~t.fitting
    \/ t.sanity_checking
    \/ self.last_global_step_saved = t.global_step

\* Mutant of skip_batch: the step is not incremented before the modulo.
skip_batch_unshifted(self, step) ==
    self.every_n_train_steps < 1 \/ step % self.every_n_train_steps # 0

\* skip_batch of on_train_batch_end
skip_batch(self, step) ==
    self.every_n_train_steps < 1 \/ (step + 1) % self.every_n_train_steps # 0

\* the cadence part of skip in on_validation_end
skip_epoch(self, current_epoch) ==
    self.every_n_val_epochs < 1 \/ (current_epoch + 1) % self.every_n_val_epochs # 0

----------------------------------------------------------------------------
(* The environment: constructor arguments, metrics, host flags *)

\* the monitored values the host may report
Scores ==
    {Num(n, TRUE) : n \in 1..MaxScore} \cup {NaN(TRUE), NaN(FALSE), Num(1, FALSE)}

\* the metrics mappings the host may report: empty, val_loss alone, or
\* another key alone
MetricsInputs ==
    {NoMetrics}
      \cup {[val_loss |-> Some(s), val_acc |-> None] : s \in Scores}
      \cup {[val_loss |-> None, val_acc |-> Some(Num(1, TRUE))]}

ExplicitDir == "/ckpt"
RootDir == "/root/checkpoints"
LoggerDir == "/root/lg/version_0/checkpoints"

\* logger.version: an int or a str
IntVersion(n) == [str |-> FALSE, n |-> n, s |-> ""]
StrVersion(s) == [str |-> TRUE, n |-> 0, s |-> s]

\* a logger as __resolve_ckpt_dir reads it
Logger(save_dir, name, version) == [save_dir |-> save_dir, name |-> name, version |-> version]

\* what __resolve_ckpt_dir reads of a participant's trainer
DirView(default_root_dir, weights_save_path, logger) ==
    [default_root_dir |-> default_root_dir, weights_save_path |-> weights_save_path,
     logger |-> logger]

NoDirs == DirView("", "", None)

\* the trainers of a single participant: no logger; a logger under the
\* default root; another logger, with a str version and a save_dir of its
\* own, under a weights_save_path the user has set
LocalViews ==
    {DirView("/root", "/root", None),
     DirView("/root", "/root", Some(Logger(None, "lg", IntVersion(0)))),
     DirView("/root", "/w", Some(Logger(Some("/logs"), "exp", StrVersion("v1"))))}

\* the trainers of the participants of a distributed run
DirViews ==
    {DirView(default_root_dir, weights_save_path, logger) :
        default_root_dir \in {"/root", "/w"}, weights_save_path \in {"/root", "/w"},
        logger \in {None} \cup
                   {Some(Logger(save_dir, name, version)) :
                       save_dir \in {None, Some("/logs")}, name \in {"lg", "exp"},
                       version \in {IntVersion(0), StrVersion("v1")}}}

\* the constructor arguments
ModeArgs == {"min", "max"}
FilenameArgs == {None, Some(EpochTemplate)}
EveryNArgs == {None} \cup {Some(n) : n \in 0..MaxEveryN}

\* Construction raises when __validate_init_configuration does.
Constructed(S) == {self \in S : ~validate_init_configuration(self)}

\* Top-K configurations: a monitor, save_top_k -1 or finite positive, both
\* modes, both templates, an explicit directory, the default triggers.
TopKConfigs ==
    Constructed({init(Some(ExplicitDir), filename, Some("val_loss"), FALSE, Some(k), mode,
                      None, None, None) :
                   filename \in FilenameArgs, k \in {-1} \cup 1..MaxTopK, mode \in ModeArgs})

\* Configurations that mix the modes: ModelCheckpoint(save_last=True), with
\* no monitor, no save_top_k and no directory; and save_top_k = 0 with a
\* monitor and save_last.
MixedConfigs ==
    Constructed({init(None, None, None, TRUE, None, "min", None, None, None),
                 init(Some(ExplicitDir), None, Some("val_loss"), TRUE, Some(0), "max",
                      None, None, None)})

\* Trigger configurations: every pair of cadences, top-1 retention.
TriggerConfigs ==
    Constructed({init(Some(ExplicitDir), None, Some("val_loss"), FALSE, Some(1), "min",
                      every_n_train_steps, every_n_val_epochs, None) :
                   every_n_train_steps \in EveryNArgs, every_n_val_epochs \in EveryNArgs})

\* the run states of the host trainer: "fit" (fitting), "fast_dev_run",
\* "test" (not fitting) and "sanity" (sanity checking while fitting)
HostStates == {"fit", "fast_dev_run", "test", "sanity"}

\* what save_checkpoint and the hooks read of the host trainer
TrainerView(metrics) ==
    [global_step |-> trainer.global_step,
     current_epoch |-> trainer.current_epoch,
     metrics |-> metrics,
     fast_dev_run |-> trainer.host = "fast_dev_run",
     fitting |-> trainer.host # "test",
     sanity_checking |-> trainer.host = "sanity",
     dirs |-> NoDirs]

NoView ==
    [global_step |-> -1, current_epoch |-> -1, metrics |-> NoMetrics,
     fast_dev_run |-> FALSE, fitting |-> FALSE, sanity_checking |-> FALSE,
     dirs |-> NoDirs]

\* the record of an event: the hook or call, the trainer it saw, whether it
\* was skipped by _should_skip_saving_checkpoint, whether save_checkpoint
\* ran, and what save_checkpoint did
Event(op, t, skipped, ran, w) ==
    [op |-> op, t |-> t, skipped |-> skipped, ran |-> ran,
     raised |-> w.raised, io |-> w.io, topk |-> w.topk, others |-> <<>>]

\* what the event did on another participant: the storage it saw before
\* and after, and its file operations
Other(files, w) == [before |-> files, after |-> w.fs, io |-> w.io]

\* the storage another participant may see: the storage of the primary
\* participant (shared storage) or an empty storage of its own
LocalStorages(files) == {files, {}}

----------------------------------------------------------------------------
(* The state machine *)

\* no direct call is being examined
NoCall == [op |-> "", done |-> TRUE]

\* the state after construction of configuration self under a host in state host
Constructs(configs, hosts) ==
    /\ cb \in configs
    /\ fs = {}
    /\ trainer \in [global_step : {0}, current_epoch : {0}, host : hosts]
    /\ calls = 0
    /\ produced_at = -1
    /\ ev = Event("init", NoView, FALSE, FALSE, World(cb, fs))
    /\ peers = <<>>
    /\ call = NoCall

\* retention: the top-K and mixed configurations while fitting
Init == Constructs(TopKConfigs \cup MixedConfigs, {"fit"})

\* triggers: the trigger configurations under every host state
InitTrig == Constructs(TriggerConfigs, HostStates)

\* an exception raised by a handler is fatal: it ends the run
Running == ev.raised = ""

\* the state after save_checkpoint has run under trainer view t and left w
\* on the primary participant and ws[r] on the participant of rank r, which
\* saw the storage locals[r]
Commit(op, t, w, locals, ws) ==
    /\ cb' = w.self
    /\ fs' = w.fs
    /\ peers' = [r \in 1..Len(peers) |-> ws[r].self]
    /\ calls' = calls + 1
    /\ produced_at' = IF \E i \in 1..Len(w.io) : w.io[i].op = "save"
                      THEN t.global_step ELSE produced_at
    /\ ev' = [Event(op, t, FALSE, TRUE, w) EXCEPT
                 !.others = [r \in 1..Len(peers) |-> Other(locals[r], ws[r])]]
    /\ UNCHANGED <<trainer, call>>

\* save_checkpoint runs on every participant under trainer view t (the
\* participants see the same trainer state and metrics)
RunSaveCheckpoint(op, t) ==
    /\ calls < MaxCalls
    /\ \E locals \in [1..Len(peers) -> LocalStorages(fs)] :
           Commit(op, t, save_checkpoint(World(cb, fs), t), locals,
                  [r \in 1..Len(peers) |->
                      save_checkpoint(PeerWorld(peers[r], r, locals[r], fs), t)])

\* a hook that returns without calling save_checkpoint
ReturnEarly(op, t, skipped) ==
    /\ ev' = Event(op, t, skipped, FALSE, World(cb, fs))
    /\ UNCHANGED <<cb, fs, trainer, calls, produced_at, peers, call>>

\* save_checkpoint called by the host or the user
SaveCheckpoint ==
    /\ Running
    /\ \E metrics \in MetricsInputs :
           RunSaveCheckpoint("save_checkpoint", TrainerView(metrics))

\* on_train_batch_end
OnTrainBatchEnd ==
    /\ Running
    /\ LET t0 == TrainerView(NoMetrics)
       IN  IF should_skip_saving_checkpoint(cb, t0)
           THEN ReturnEarly("on_train_batch_end", t0, TRUE)
           ELSE IF skip_batch(cb, t0.global_step)
           THEN ReturnEarly("on_train_batch_end", t0, FALSE)
           ELSE \E metrics \in MetricsInputs :
                    RunSaveCheckpoint("on_train_batch_end", TrainerView(metrics))

\* on_validation_end
OnValidationEnd ==
    /\ Running
    /\ LET t0 == TrainerView(NoMetrics)
       IN  IF should_skip_saving_checkpoint(cb, t0)
           THEN ReturnEarly("on_validation_end", t0, TRUE)
           ELSE IF skip_epoch(cb, t0.current_epoch)
           THEN ReturnEarly("on_validation_end", t0, FALSE)
           ELSE \E metrics \in MetricsInputs :
                    RunSaveCheckpoint("on_validation_end", TrainerView(metrics))

\* os.path.join of a path and a relative component
join(a, b) == a \o "/" \o b

\* the version component: a str version as it is, else f"version_{version}"
version_name(version) ==
    IF version.str THEN version.s ELSE "version_" \o ToString(version.n)

\* the base path with a logger: weights_save_path when the user has changed
\* it, else logger.save_dir or default_root_dir
save_dir(t) ==
    IF t.weights_save_path # t.default_root_dir THEN t.weights_save_path
    ELSE IF ~IsNone(Val(t.logger).save_dir) THEN Val(Val(t.logger).save_dir)
    ELSE t.default_root_dir

\* what a participant hands to broadcast: (version, trainer.logger.name)
version_and_name(t) ==
    [version |-> version_name(Val(t.logger).version), name |-> Val(t.logger).name]

\* Mutant of __resolve_ckpt_dir: no short circuit on a directory already set.
resolve_ckpt_dir_again(self, t, sent) ==
    IF ~IsNone(t.logger)
    THEN Some(join(join(join(save_dir(t), broadcast(sent).name), broadcast(sent).version),
                   "checkpoints"))
    ELSE Some(join(t.weights_save_path, "checkpoints"))

\* __resolve_ckpt_dir under the participant's trainer t, sent being what the
\* participants hand to broadcast; the directories themselves are not part
\* of the storage model, so makedirs leaves it as it is
resolve_ckpt_dir(self, t, sent) ==
    IF ~IsNone(self.dirpath) THEN self.dirpath
    ELSE IF ~IsNone(t.logger)
    THEN Some(join(join(join(save_dir(t), broadcast(sent).name), broadcast(sent).version),
                   "checkpoints"))
    ELSE Some(join(t.weights_save_path, "checkpoints"))

\* on_pretrain_routine_start of one participant
pretrain_routine_start(self, t, sent) ==
    [self EXCEPT !.dirpath = resolve_ckpt_dir(self, t, sent), !.save_function = TRUE]

\* the trainers of the participants, by rank: all have a logger or none has
\* (they run the same program), the rest is each participant's own
ParticipantViews(views) ==
    {ts \in [0..Len(peers) -> views] :
        \A r \in 1..Len(peers) : IsNone(ts[r].logger) <=> IsNone(ts[0].logger)}

\* what the participants hand to broadcast (nothing without a logger)
Sent(ts) ==
    [r \in DOMAIN ts |->
        IF IsNone(ts[r].logger) THEN [version |-> "", name |-> ""]
        ELSE version_and_name(ts[r])]

\* on_pretrain_routine_start runs on every participant, each under its own
\* trainer; the broadcast inside it makes the participants take the step
\* together
PretrainRoutineStart(views) ==
    /\ Running
    /\ \E ts \in ParticipantViews(views) :
           /\ cb' = pretrain_routine_start(cb, ts[0], Sent(ts))
           /\ peers' = [r \in 1..Len(peers) |->
                            pretrain_routine_start(peers[r], ts[r], Sent(ts))]
           /\ ev' = Event("on_pretrain_routine_start", [NoView EXCEPT !.dirs = ts[0]],
                          FALSE, FALSE, World(cb, fs))
    /\ UNCHANGED <<fs, trainer, calls, produced_at, call>>

\* on_pretrain_routine_start
OnPretrainRoutineStart == PretrainRoutineStart(LocalViews)

\* the callback state of the checkpoint a run resumes from (written by
\* on_save_checkpoint of an earlier run)
CallbackStates ==
    {[best_model_score |-> Some(Num(1, TRUE)),
      best_model_path |-> Path(ExplicitDir, DefaultTemplate, 0, 0, None)]}

\* on_load_checkpoint of one participant
load_checkpoint(self, callback_state) ==
    [self EXCEPT !.best_model_score = callback_state.best_model_score,
                 !.best_model_path = callback_state.best_model_path]

\* on_load_checkpoint (every participant loads the same checkpoint)
OnLoadCheckpoint ==
    /\ Running
    /\ \E callback_state \in CallbackStates :
           /\ cb' = load_checkpoint(cb, callback_state)
           /\ peers' = [r \in 1..Len(peers) |-> load_checkpoint(peers[r], callback_state)]
    /\ ev' = Event("on_load_checkpoint", NoView, FALSE, FALSE, World(cb, fs))
    /\ UNCHANGED <<fs, trainer, calls, produced_at, call>>

\* the host's training loop advances the global step
AdvanceStep ==
    /\ Running
    /\ trainer.global_step < MaxStep
    /\ trainer' = [trainer EXCEPT !.global_step = @ + 1]
    /\ UNCHANGED <<cb, fs, calls, produced_at, ev, peers, call>>

\* the host's training loop advances the epoch
AdvanceEpoch ==
    /\ Running
    /\ trainer.current_epoch < MaxEpoch
    /\ trainer' = [trainer EXCEPT !.current_epoch = @ + 1]
    /\ UNCHANGED <<cb, fs, calls, produced_at, ev, peers, call>>

Next ==
    \/ SaveCheckpoint
    \/ OnTrainBatchEnd
    \/ OnValidationEnd
    \/ OnPretrainRoutineStart
    \/ OnLoadCheckpoint
    \/ AdvanceStep
    \/ AdvanceEpoch

Spec == Init /\ [][Next]_vars

----------------------------------------------------------------------------
(* Filename templates as text.  A text is a sequence of symbols: the       *)
(* characters "{", "}", ":", "=", "-" and the words "epoch", "step",      *)
(* "val", "_loss", ".2f", ".ckpt".  No symbol is a prefix of another and  *)
(* every search below starts at a "{", so matching symbol by symbol is    *)
(* matching character by character.  A rendered name is a sequence of     *)
(* tokens: a literal symbol, or a value formatted with a format spec.      *)

Lit(c) == [lit |-> c, value |-> 0, spec |-> <<>>]
Field(v, f) == [lit |-> "", value |-> v, spec |-> f]

\* the first position from i on holding one of the symbols, 0 when there is none
RECURSIVE IndexOf(_, _, _)
IndexOf(text, symbols, i) ==
    IF i > Len(text) THEN 0
    ELSE IF text[i] \in symbols THEN i
    ELSE IndexOf(text, symbols, i + 1)

\* the end of the regular-expression match that starts at the "{" at i, 0 when none
group_end(filename, i) == IF i = 0 THEN 0 ELSE IndexOf(filename, {":", "}"}, i + 1)

\* re.findall(r"(\{.*?)[:\}]", filename), searching from pos
RECURSIVE findall(_, _)
findall(filename, pos) ==
    IF group_end(filename, IndexOf(filename, {"{"}, pos)) = 0 THEN <<>>
    ELSE <<SubSeq(filename, IndexOf(filename, {"{"}, pos),
                  group_end(filename, IndexOf(filename, {"{"}, pos)) - 1)>>
            \o findall(filename, group_end(filename, IndexOf(filename, {"{"}, pos)) + 1)

\* str.replace(old, by) from position i: every occurrence, left to right
RECURSIVE replace(_, _, _, _)
replace(text, old, by, i) ==
    IF i > Len(text) THEN <<>>
    ELSE IF i + Len(old) - 1 <= Len(text) /\ SubSeq(text, i, i + Len(old) - 1) = old
    THEN by \o replace(text, old, by, i + Len(old))
    ELSE <<text[i]>> \o replace(text, old, by, i + 1)

\* the loop over the groups, from the k-th: the template after the rewrites
\* filename.replace(group, name + "={" + name)
RECURSIVE insert_metric_names(_, _, _)
insert_metric_names(filename, groups, k) ==
    IF k > Len(groups) THEN filename
    ELSE insert_metric_names(
             replace(filename, groups[k], Tail(groups[k]) \o <<"=", "{">> \o Tail(groups[k]), 1),
             groups, k + 1)

\* the loop over the groups: metrics[name] = 0 for every name not in metrics
default_missing(metrics, groups) ==
    [name \in DOMAIN metrics |->
        IF IsNone(metrics[name]) /\ \E k \in 1..Len(groups) : Tail(groups[k]) = name
        THEN Some(0) ELSE metrics[name]]

\* metrics.update({"epoch": epoch, 'step': step})
update_epoch_step(metrics, epoch, step) ==
    [metrics EXCEPT ![<<"epoch">>] = Some(epoch), ![<<"step">>] = Some(step)]

\* one replacement field of str.format, "{" at i, name ending before c,
\* field ending at e: the value formatted, or the exception
format_field(text, metrics, i, c, e) ==
    IF c = 0 \/ e = 0 THEN Lit("ValueError")
    ELSE IF SubSeq(text, i + 1, c - 1) \notin DOMAIN metrics THEN Lit("KeyError")
    ELSE IF IsNone(metrics[SubSeq(text, i + 1, c - 1)]) THEN Lit("KeyError")
    ELSE Field(Val(metrics[SubSeq(text, i + 1, c - 1)]),
               IF text[c] = ":" THEN SubSeq(text, c + 1, e - 1) ELSE <<>>)

\* str.format(**metrics) from position i: literal text is kept, a field
\* "{name}" or "{name:spec}" is the value of name formatted with spec
RECURSIVE format(_, _, _)
format(text, metrics, i) ==
    IF i > Len(text) THEN <<>>
    ELSE IF text[i] = "}" THEN <<Lit("ValueError")>>
    ELSE IF text[i] # "{" THEN <<Lit(text[i])>> \o format(text, metrics, i + 1)
    ELSE IF IndexOf(text, {"}"}, i + 1) = 0 THEN <<Lit("ValueError")>>
    ELSE <<format_field(text, metrics, i, IndexOf(text, {":", "}"}, i + 1),
                        IndexOf(text, {"}"}, i + 1))>>
            \o format(text, metrics, IndexOf(text, {"}"}, i + 1) + 1)

\* _format_checkpoint_name (no prefix): the rendered name and the metrics
\* mapping as the call leaves it
_format_checkpoint_name(filename, epoch, step, metrics, auto_insert_metric_name) ==
    [filename |->
         format(IF auto_insert_metric_name
                THEN insert_metric_names(filename, findall(filename, 1), 1)
                ELSE filename,
                default_missing(update_epoch_step(metrics, epoch, step), findall(filename, 1)),
                1),
     metrics |-> default_missing(update_epoch_step(metrics, epoch, step), findall(filename, 1))]

\* the default template as text
DefaultText == <<"{", "epoch", "}", "-", "{", "step", "}">>

\* format_checkpoint_name as text: the file name (ver is None) with the
\* extension, and the metrics mapping as the call leaves it
format_checkpoint_name_text(self, epoch, step, metrics) ==
    [_format_checkpoint_name(IF self.filename = <<>> THEN DefaultText ELSE self.filename,
                             epoch, step, metrics, self.auto_insert_metric_name)
        EXCEPT !.filename = @ \o <<Lit(".ckpt")>>]

----------------------------------------------------------------------------
(* format_checkpoint_name as a step: called on any template *)

MaxParts == 3      \* a template has 1..MaxParts parts

\* the names a template may use; "val" is a prefix of "val_loss"
Names == {<<"epoch">>, <<"step">>, <<"val">>, <<"val", "_loss">>}
FormatSpecs == {<<>>, <<".2f">>}

\* the parts of a template: a placeholder {name} or {name:spec}, or the
\* literal "-"
TemplateParts ==
    [kind : {"field"}, name : Names, spec : FormatSpecs]
      \cup {[kind |-> "lit", name |-> <<"-">>, spec |-> <<>>]}

\* the text of a part
PartText(part) ==
    IF part.kind = "lit" THEN part.name
    ELSE <<"{">> \o part.name
            \o (IF part.spec = <<>> THEN <<>> ELSE <<":">> \o part.spec) \o <<"}">>

\* the text of a template
RECURSIVE TemplateText(_)
TemplateText(parts) ==
    IF parts = <<>> THEN <<>> ELSE PartText(Head(parts)) \o TemplateText(Tail(parts))

Templates == UNION {[1..n -> TemplateParts] : n \in 1..MaxParts}

\* the metrics mappings a caller may pass: each name absent or 5
TextMetrics == [Names -> {None, Some(5)}]

\* an object with the template, about to be asked for the name of epoch 2,
\* step 3; the caller keeps the mapping it passes and passes it again
InitFormat ==
    /\ \E parts \in Templates, metrics \in TextMetrics, auto \in BOOLEAN :
           /\ cb = [filename |-> TemplateText(parts), auto_insert_metric_name |-> auto]
           /\ call = [op |-> "format_checkpoint_name", parts |-> parts,
                      epoch |-> 2, step |-> 3, passed |-> metrics, metrics |-> metrics,
                      results |-> <<>>]
    /\ fs = {}
    /\ trainer = [global_step |-> 0, current_epoch |-> 0, host |-> "fit"]
    /\ calls = 0
    /\ produced_at = -1
    /\ ev = Event("init", NoView, FALSE, FALSE, World(cb, fs))
    /\ peers = <<>>

\* format_checkpoint_name(epoch, step, metrics) on the mapping the caller holds
FormatCheckpointName ==
    /\ call.op = "format_checkpoint_name" /\ Len(call.results) < 2
    /\ call' = [call EXCEPT
                   !.results = Append(@, format_checkpoint_name_text(
                                             cb, call.epoch, call.step, call.metrics).filename),
                   !.metrics = format_checkpoint_name_text(
                                   cb, call.epoch, call.step, call.metrics).metrics]
    /\ UNCHANGED <<cb, fs, trainer, calls, produced_at, ev, peers>>

NextFormat == FormatCheckpointName

SpecFormat == InitFormat /\ [][NextFormat]_vars

----------------------------------------------------------------------------
(* Construction as a step: ModelCheckpoint(...) called with any arguments *)

\* the arguments a caller may pass, valid or not
TopKArgs == {None} \cup {Some(k) : k \in -2..MaxTopK}
CadenceArgs == {None} \cup {Some(n) : n \in -1..MaxEveryN}
AnyModeArgs == {"min", "max", "avg"}

NewArgs ==
    [dirpath : {Some(ExplicitDir)}, filename : {None}, monitor : {None, Some("val_loss")},
     save_last : BOOLEAN, save_top_k : TopKArgs, mode : AnyModeArgs,
     every_n_train_steps : CadenceArgs, every_n_val_epochs : CadenceArgs,
     period : CadenceArgs]

\* no object has been constructed yet
NoObject == [constructed |-> FALSE]

\* the state before the constructor is called with arguments drawn from args
Calls(op, args) ==
    /\ call \in [op : {op}, args : args, done : {FALSE}, raised : {""}]
    /\ cb = NoObject
    /\ fs = {}
    /\ trainer = [global_step |-> 0, current_epoch |-> 0, host |-> "fit"]
    /\ calls = 0
    /\ produced_at = -1
    /\ ev = Event("init", NoView, FALSE, FALSE, World(cb, fs))
    /\ peers = <<>>

InitNew == Calls("__init__", NewArgs)

\* ModelCheckpoint.__init__: the object, or the exception
New ==
    /\ call.op = "__init__" /\ ~call.done
    /\ cb' = IF new_raises(call.args) = "" THEN new(call.args) ELSE cb
    /\ call' = [call EXCEPT !.done = TRUE, !.raised = new_raises(call.args)]
    /\ UNCHANGED <<fs, trainer, calls, produced_at, ev, peers>>

NextNew == New

SpecNew == InitNew /\ [][NextNew]_vars

SpecTrig == InitTrig /\ [][Next]_vars

\* Configurations for the directory: the default one (no directory) and
\* one with an explicit directory.
DirConfigs ==
    Constructed({init(dirpath, None, None, FALSE, None, "min", None, None, None) :
                   dirpath \in {None, Some(ExplicitDir)}})

\* a distributed run: every participant constructs the same configuration
ConstructsAll(configs) ==
    /\ cb \in configs
    /\ peers = [r \in 1..MaxPeers |-> cb]
    /\ fs = {}
    /\ trainer \in [global_step : {0}, current_epoch : {0}, host : {"fit"}]
    /\ calls = 0
    /\ produced_at = -1
    /\ ev = Event("init", NoView, FALSE, FALSE, World(cb, fs))
    /\ call = NoCall

InitDir == ConstructsAll(DirConfigs)

\* on_pretrain_routine_start of a distributed run
OnPretrainRoutineStartAll == PretrainRoutineStart(DirViews)

NextDir == OnPretrainRoutineStartAll

SpecDir == InitDir /\ [][NextDir]_vars

\* a run that is not resumed from a checkpoint: no on_load_checkpoint
NextFresh ==
    \/ SaveCheckpoint
    \/ OnTrainBatchEnd
    \/ OnValidationEnd
    \/ OnPretrainRoutineStart
    \/ AdvanceStep
    \/ AdvanceEpoch

SpecFresh == Init /\ [][NextFresh]_vars

\* Configurations of a distributed run that saves: top-K retention, and no
\* monitor with save_last, in an explicit directory.
PeerConfigs ==
    Constructed({init(Some(ExplicitDir), None, Some("val_loss"), FALSE, Some(k), "min",
                      None, None, None) : k \in 1..MaxTopK}
                \cup {init(Some(ExplicitDir), None, None, TRUE, None, "min",
                           None, None, None)})

InitPeers == ConstructsAll(PeerConfigs)

\* a distributed run: the hooks and save_checkpoint run on every participant
SpecPeers == InitPeers /\ [][Next]_vars

\* Configurations for the save modes: the mixed configurations and top-1
\* retention with save_last.
ModeConfigs ==
    MixedConfigs \cup
    Constructed({init(Some(ExplicitDir), None, Some("val_loss"), TRUE, Some(1), "min",
                      None, None, None)})

InitModes == Constructs(ModeConfigs, {"fit"})

\* the save modes as the host runs them: the training loop does not stop
\* while a step is left to take
SpecModes == InitModes /\ [][Next]_vars /\ WF_vars(Next)

----------------------------------------------------------------------------
(* Properties *)

\* the transition is an execution of save_checkpoint
SaveStep == calls' = calls + 1

\* save_top_k is a finite positive number
FiniteTopK(self) == ~IsNone(self.save_top_k) /\ Val(self.save_top_k) >= 1

\* the value a score ranks with: NaN counts as the worst infinity of the mode
Ranked(mode, x) ==
    IF isnan(x) THEN (IF mode = "min" THEN PosInf(x.tensor) ELSE NegInf(x.tensor)) ELSE x

\* a is strictly better than b under mode
StrictlyBetter(mode, a, b) == IF mode = "min" THEN Lt(a, b) ELSE Lt(b, a)

\* the same float, whatever the representation
SameValue(a, b) == a.kind = b.kind /\ a.n = b.n

\* C1: for finite positive save_top_k = K, best_k_models never holds more
\* than K entries, whatever save_checkpoint calls were made (absent and NaN
\* scores included).
C1_Capacity ==
    FiniteTopK(cb) => Len(cb.best_k_models) <= Val(cb.save_top_k)

\* C1 witness: an accepted save at capacity K >= 2 evicted an entry and the
\* dict again holds K entries.
C1_Witness ==
    /\ ev.ran /\ ev.topk.accepted /\ ~IsNone(ev.topk.del_filepath)
    /\ FiniteTopK(cb) /\ Val(cb.save_top_k) >= 2
    /\ Len(cb.best_k_models) = Val(cb.save_top_k)

\* the decision C2 states, for the object as save_checkpoint finds it
C2_Decision(self, current) ==
    /\ ~IsNone(current)
    /\ \/ self.save_top_k = Some(-1)
       \/ Len(self.best_k_models) < Val(self.save_top_k)
       \/ /\ Has(self.best_k_models, self.kth_best_model_path)
          /\ StrictlyBetter(self.mode, Val(current),
                            Get(self.best_k_models, self.kth_best_model_path))

\* C2: with a monitor set, a top-K save is accepted iff the score is present
\* and save_top_k is -1, or fewer than save_top_k entries are tracked, or the
\* score is strictly better (min: less, max: greater) than the score of the
\* entry at kth_best_model_path; a score equal to it is rejected.
C2_Acceptance ==
    [][SaveStep /\ ev'.topk.active =>
          /\ ev'.raised # "KeyError"
          /\ ev'.topk.accepted <=>
                 C2_Decision([cb EXCEPT !.save_top_k = cb'.save_top_k], ev'.topk.current)]_vars

\* C2 witness: at capacity, a score equal to the kth value was rejected.
C2_Witness ==
    /\ ev.ran /\ ev.topk.active /\ ~ev.topk.accepted /\ ~IsNone(ev.topk.current)
    /\ FiniteTopK(cb) /\ Len(cb.best_k_models) = Val(cb.save_top_k)
    /\ SameValue(Val(ev.topk.current), cb.kth_value)

\* the set of paths the call removed from storage
Removed(e) == {e.io[i].path : i \in {j \in 1..Len(e.io) : e.io[j].op = "rm"}}

\* the scores a dict holds, each as it ranks
RankedScores(mode, d) == {Ranked(mode, d[i].score) : i \in 1..Len(d)}

\* x is the best value of the non-empty set S under mode
IsBest(mode, x, S) ==
    /\ \E y \in S : SameValue(x, y)
    /\ \A y \in S : ~StrictlyBetter(mode, y, x)

C4_KthIsWorst ==
    ev.ran /\ FiniteTopK(cb) /\ Len(cb.best_k_models) = Val(cb.save_top_k) =>
        /\ Has(cb.best_k_models, cb.kth_best_model_path)
        /\ \A i \in 1..Len(cb.best_k_models) :
               ~StrictlyBetter(cb.mode,
                               Ranked(cb.mode, Get(cb.best_k_models, cb.kth_best_model_path)),
                               Ranked(cb.mode, cb.best_k_models[i].score))
        /\ cb.kth_value = Get(cb.best_k_models, cb.kth_best_model_path)

\* the entries of d other than the one at path p
Others(d, p) == {d[i] : i \in {j \in 1..Len(d) : d[j].path # p}}
Items(d) == {d[i] : i \in 1..Len(d)}

\* C5: an accepted top-K save that finds K entries evicts exactly the entry
\* at kth_best_model_path and removes its file from storage iff its path
\* differs from the new checkpoint's path; an accepted save below capacity
\* evicts no entry and removes no file.
C5_Eviction ==
    [][SaveStep /\ ev'.topk.accepted =>
          IF FiniteTopK(cb') /\ Len(cb.best_k_models) = Val(cb'.save_top_k)
          THEN /\ ev'.topk.del_filepath = Some(cb.kth_best_model_path)
               /\ Has(cb.best_k_models, cb.kth_best_model_path)
               /\ Len(cb'.best_k_models) = Len(cb.best_k_models)
               /\ Others(cb'.best_k_models, ev'.topk.filepath)
                      = Others(cb.best_k_models, cb.kth_best_model_path)
               /\ Removed(ev') = IF ev'.topk.filepath # cb.kth_best_model_path
                                 THEN {cb.kth_best_model_path} ELSE {}
               /\ cb.kth_best_model_path \in fs
               /\ cb.kth_best_model_path \in fs' <=>
                      ev'.topk.filepath = cb.kth_best_model_path
          ELSE /\ ev'.topk.del_filepath = None
               /\ Items(cb.best_k_models) \subseteq Items(cb'.best_k_models)
               /\ Removed(ev') = {}
               /\ fs \subseteq fs']_vars

\* C5 witness: an accepted save at capacity evicted the kth entry and
\* removed its file, the new checkpoint being written elsewhere.
C5_Witness ==
    /\ ev.ran /\ ev.topk.accepted /\ ~IsNone(ev.topk.del_filepath)
    /\ Removed(ev) = {Val(ev.topk.del_filepath)}
    /\ Val(ev.topk.del_filepath) \notin fs
    /\ ev.topk.filepath \in fs

\* the monitored score of the call is present
Present(e) == In("val_loss", e.t.metrics)

\* C6: with save_top_k == -1 and a monitor set, every save_checkpoint call
\* whose monitored score is present is accepted and adds one entry, no entry
\* is evicted and no file removed; every other step leaves the number of
\* entries as it is.  So after M such calls best_k_models has M entries.
C6_KeepAll ==
    [][cb'.save_top_k = Some(-1) /\ ~IsNone(cb'.monitor) =>
          IF SaveStep /\ Present(ev')
          THEN /\ ev'.topk.accepted
               /\ ev'.topk.del_filepath = None
               /\ Len(cb'.best_k_models) = Len(cb.best_k_models) + 1
               /\ Items(cb.best_k_models) \subseteq Items(cb'.best_k_models)
               /\ Removed(ev') = {}
               /\ fs \subseteq fs'
          ELSE /\ Len(cb'.best_k_models) = Len(cb.best_k_models)
               /\ fs \subseteq fs']_vars

\* C6 witness: MaxCalls calls with a present score, MaxCalls entries.
C6_Witness ==
    /\ cb.save_top_k = Some(-1) /\ ~IsNone(cb.monitor)
    /\ ev.ran /\ ev.topk.accepted
    /\ calls = MaxCalls /\ Len(cb.best_k_models) = MaxCalls

\* C7: a NaN score ranks as the worst: an accepted NaN save stores +inf (min
\* mode) or -inf (max mode), best_k_models never holds NaN, and a NaN score
\* is never accepted at capacity, so it evicts nothing.
C7_NaNRanksWorst ==
    /\ \A i \in 1..Len(cb.best_k_models) : ~isnan(cb.best_k_models[i].score)
    /\ ev.ran /\ ev.topk.accepted /\ isnan(Val(ev.topk.current)) =>
           /\ IsNone(ev.topk.del_filepath)
           /\ Has(cb.best_k_models, ev.topk.filepath)
           /\ SameValue(Get(cb.best_k_models, ev.topk.filepath),
                        Ranked(cb.mode, Val(ev.topk.current)))

\* the n-th path of the sequence base, base-v1, base-v2, ...
Candidate(self, epoch, step, n) ==
    format_checkpoint_name(self, epoch, step, IF n = 0 THEN None ELSE Some(n))

\* path is free for a new checkpoint: not on storage, or the excluded
\* deletion candidate
Available(files, path, del_filepath) == path \notin files \/ Some(path) = del_filepath

\* path is the first available path of the sequence, found among the first
\* |files| + 1 of them
FirstAvailable(self, files, epoch, step, del_filepath, path) ==
    \E n \in 0..Cardinality(files) :
        /\ path = Candidate(self, epoch, step, n)
        /\ Available(files, path, del_filepath)
        /\ \A m \in 0..(n - 1) :
               ~Available(files, Candidate(self, epoch, step, m), del_filepath)

\* the call resolved a path in no-monitor mode and saved to it
NoMonitorSaved(self, e) ==
    /\ IsNone(self.monitor) /\ self.save_top_k # Some(0)
    /\ e.raised = "" /\ Len(e.io) > 0

\* C8: the collision resolver returns the first path of base, base-v1,
\* base-v2, ... that does not exist on storage or is the excluded deletion
\* candidate, after at most |storage| retries; so a new checkpoint never
\* takes the path of an existing file other than the one being evicted.
C8_FirstAvailablePath ==
    [][/\ SaveStep /\ ev'.topk.accepted /\ ev'.raised # "KeyError" =>
            FirstAvailable(cb, fs, ev'.t.current_epoch, ev'.t.global_step,
                           ev'.topk.del_filepath, ev'.topk.filepath)
       /\ SaveStep /\ NoMonitorSaved(cb', ev') =>
            FirstAvailable(cb, fs, ev'.t.current_epoch, ev'.t.global_step,
                           None, ev'.io[1].path)]_vars

\* C8 witness: base and base-v1 exist and neither is the deletion candidate;
\* the new checkpoint went to base-v2.
C8_Witness ==
    /\ ev.ran /\ ev.topk.accepted
    /\ ev.topk.filepath.ver = Some(2)
    /\ [ev.topk.filepath EXCEPT !.ver = None] \in fs
    /\ [ev.topk.filepath EXCEPT !.ver = Some(1)] \in fs
    /\ ev.topk.filepath \in fs

Hooks == {"on_train_batch_end", "on_validation_end"}

\* the cadence test of the claim: n >= 1 and (c + 1) mod n = 0
Due(n, c) == n >= 1 /\ (c + 1) % n = 0

\* C9: a hook event that is not skipped runs save_checkpoint iff its cadence
\* n is at least 1 and (c + 1) mod n = 0; c is the global step and n
\* every_n_train_steps at train batch end, c the current epoch and n
\* every_n_val_epochs at validation end.
C9_Cadence ==
    /\ ev.op = "on_train_batch_end" /\ ~ev.skipped =>
           (ev.ran <=> Due(cb.every_n_train_steps, ev.t.global_step))
    /\ ev.op = "on_validation_end" /\ ~ev.skipped =>
           (ev.ran <=> Due(cb.every_n_val_epochs, ev.t.current_epoch))

\* C9 witness: with every_n_train_steps = 2, the train batch end of global
\* step 1 ran save_checkpoint.
C9_Witness ==
    /\ ev.op = "on_train_batch_end" /\ ~ev.skipped /\ ev.ran
    /\ cb.every_n_train_steps = 2 /\ ev.t.global_step = 1

\* the transition is a hook event
HookStep == ev'.op \in Hooks /\ trainer' = trainer /\ (ev' # ev \/ calls' # calls)

\* the call wrote a checkpoint file
Wrote(e) == \E i \in 1..Len(e.io) : e.io[i].op = "save"

\* C10: a hook event is skipped entirely (save_checkpoint does not run,
\* nothing is written or removed, the object is unchanged) when the host is
\* in fast_dev_run, not fitting or sanity checking, or a checkpoint was
\* already written at the current global step; so no hook writes a second
\* checkpoint at a global step.
C10_Skip ==
    [][HookStep =>
          /\ (\/ ev'.t.fast_dev_run \/ ~ev'.t.fitting \/ ev'.t.sanity_checking
              \/ produced_at = ev'.t.global_step)
                => /\ ev'.skipped /\ ~ev'.ran /\ ev'.io = <<>>
                   /\ UNCHANGED <<cb, fs, produced_at>>
          /\ Wrote(ev') => produced_at # ev'.t.global_step]_vars

\* C10 witness: while fitting, a hook was skipped because a checkpoint had
\* been written at the current global step.
C10_Witness ==
    /\ ev.op \in Hooks /\ ev.skipped
    /\ ev.t.fitting /\ ~ev.t.fast_dev_run /\ ~ev.t.sanity_checking
    /\ produced_at = ev.t.global_step

\* the cadences the constructor arguments ask for: the validation one is
\* period when given, else every_n_val_epochs, else 1 when neither cadence
\* is given and 0 otherwise; the training one is 0 when not given
TrainCadence(a) == IF IsNone(a.every_n_train_steps) THEN 0 ELSE Val(a.every_n_train_steps)
ValCadence(a) ==
    IF ~IsNone(a.period) THEN Val(a.period)
    ELSE IF ~IsNone(a.every_n_val_epochs) THEN Val(a.every_n_val_epochs)
    ELSE IF IsNone(a.every_n_train_steps) THEN 1 ELSE 0

\* the arguments the claim says construction must refuse
InvalidArgs(a) ==
    \/ ~IsNone(a.save_top_k) /\ Val(a.save_top_k) < -1
    \/ TrainCadence(a) < 0
    \/ ValCadence(a) < 0
    \/ TrainCadence(a) > 0 /\ ValCadence(a) > 0
    \/ IsNone(a.monitor) /\ a.save_top_k \notin {None, Some(-1), Some(0)}
    \/ a.mode \notin {"min", "max"}

\* C11: construction fails with a configuration error when save_top_k < -1,
\* a cadence is negative, both cadences are positive (the validation one
\* also when given as period), monitor is unset while save_top_k is not
\* None, -1 or 0, or mode is not min or max; so a constructed object has at
\* most one cadence >= 1.
C11_Construction ==
    call.op = "__init__" /\ call.done =>
        /\ InvalidArgs(call.args) =>
               call.raised = "MisconfigurationException" /\ cb = NoObject
        /\ call.raised = "" =>
               ~(cb.every_n_train_steps >= 1 /\ cb.every_n_val_epochs >= 1)

\* C11 witness: every_n_train_steps = 1 with period = 1 and no
\* every_n_val_epochs was refused.
C11_Witness ==
    /\ call.op = "__init__" /\ call.done
    /\ call.raised = "MisconfigurationException"
    /\ call.args.every_n_train_steps = Some(1)
    /\ call.args.every_n_val_epochs = None
    /\ call.args.period = Some(1)
    /\ call.args.mode = "min" /\ call.args.monitor = Some("val_loss")
    /\ call.args.save_top_k = Some(1)

\* the retention state of an object: what it tracks and where it last saved
Retention(self) ==
    <<self.best_k_models, self.best_model_path, self.kth_best_model_path,
      self.last_model_path, self.best_model_score, self.kth_value,
      self.current_score, self.last_global_step_saved>>

\* C12: save_checkpoint with a monitor set, a non-empty metrics mapping and
\* the monitor key absent from it raises MisconfigurationException before
\* anything changes: no file is written or removed and the tracked entries,
\* paths, scores and last saved global step are as before.
C12_MissingKeyFails ==
    [][(/\ SaveStep
        /\ ~IsNone(cb.monitor)
        /\ MetricsLen(ev'.t.metrics) > 0
        /\ ~In(Val(cb.monitor), ev'.t.metrics)) =>
          /\ ev'.raised = "MisconfigurationException"
          /\ ev'.io = <<>>
          /\ fs' = fs
          /\ Retention(cb') = Retention(cb)]_vars

\* C12 witness: the call failed at a global step later than the last saved
\* one, with an entry tracked and its file on storage.
C12_Witness ==
    /\ ev.ran /\ ev.raised = "MisconfigurationException"
    /\ MetricsLen(ev.t.metrics) > 0
    /\ Len(cb.best_k_models) > 0
    /\ cb.best_model_path \in fs
    /\ cb.last_global_step_saved # ev.t.global_step

\* C13: a monitored value given as a plain number is coerced to a tensor
\* before ranking and is not dropped: after an accepted save, below or at
\* capacity, the scores held in best_k_models, current_score and
\* best_model_score are tensors.
C13_StoredCoerced ==
    ev.ran /\ ev.topk.accepted /\ ev.raised = "" =>
        /\ Has(cb.best_k_models, ev.topk.filepath)
        /\ \A i \in 1..Len(cb.best_k_models) : cb.best_k_models[i].score.tensor
        /\ Val(cb.current_score).tensor
        /\ Val(cb.best_model_score).tensor

\* the value the claim has a placeholder render: the epoch and step of the
\* call, a metric passed, and 0 for a name absent from the metrics
PlaceholderValue(name, epoch, step, metrics) ==
    CASE name = <<"epoch">> -> epoch
      [] name = <<"step">> -> step
      [] OTHER -> IF IsNone(metrics[name]) THEN 0 ELSE Val(metrics[name])

\* the literal tokens of a text
Lits(text) == [i \in 1..Len(text) |-> Lit(text[i])]

\* the name the claim has a template render to: literal text as it is, a
\* placeholder as name=<value formatted with its spec>
RECURSIVE Rendered(_, _, _, _)
Rendered(parts, epoch, step, metrics) ==
    IF parts = <<>> THEN <<>>
    ELSE (IF Head(parts).kind = "lit" THEN Lits(Head(parts).name)
          ELSE Lits(Head(parts).name) \o <<Lit("=")>>
                  \o <<Field(PlaceholderValue(Head(parts).name, epoch, step, metrics),
                             Head(parts).spec)>>)
            \o Rendered(Tail(parts), epoch, step, metrics)

\* C14: with auto_insert_metric_name, every placeholder {name} or
\* {name:spec} renders as name=<value> with the spec applied, an absent name
\* as 0, and literal text is kept, for every template, also when a
\* placeholder repeats or one name is a prefix of another.
C14_AutoInsert ==
    (/\ call.op = "format_checkpoint_name"
     /\ Len(call.results) >= 1
     /\ cb.auto_insert_metric_name) =>
           call.results[1]
             = Rendered(call.parts, call.epoch, call.step, call.passed) \o <<Lit(".ckpt")>>

\* C15: format_checkpoint_name is a pure function of template, epoch, step
\* and metrics: two calls with equal inputs return equal names, and a call
\* leaves the metrics mapping passed to it as it was.
C15_Pure ==
    call.op = "format_checkpoint_name" =>
        /\ Len(call.results) = 2 => call.results[1] = call.results[2]
        /\ call.metrics = call.passed

\* the files of last-checkpoint mode on storage
LastFiles(files) == {f \in files : f.stem = LastTemplate}

\* the call saved to path
Saved(e, path) == \E i \in 1..Len(e.io) : e.io[i] = [op |-> "save", path |-> path]

OtherFiles(files) == files \ LastFiles(files)

\* the paths outside last-checkpoint mode the call saved to
SavedOthers(e) ==
    {e.io[i].path : i \in {j \in 1..Len(e.io) :
                              e.io[j].op = "save" /\ e.io[j].path.stem # LastTemplate}}

\* C17: with monitor unset and save_top_k None, every save_checkpoint call
\* that returns, whatever metrics the host reports, writes one checkpoint,
\* sets best_model_path to its path and removes the previously written
\* checkpoint when its path differs; so exactly one checkpoint outside
\* last-checkpoint mode is on storage after the call.
C17_KeepOne ==
    [][(SaveStep /\ IsNone(cb.monitor) /\ IsNone(cb.save_top_k) /\ ev'.raised = "") =>
          /\ SavedOthers(ev') = {cb'.best_model_path}
          /\ cb'.best_model_path # EmptyPath
          /\ (cb.best_model_path # EmptyPath /\ cb.best_model_path # cb'.best_model_path)
                 => cb.best_model_path \notin fs'
          /\ OtherFiles(fs') = {cb'.best_model_path}]_vars

\* the paths the call saved to, in order
Writes(e) ==
    [i \in 1..Len(SelectSeq(e.io, LAMBDA x : x.op = "save")) |->
         SelectSeq(e.io, LAMBDA x : x.op = "save")[i].path]

\* top-K mode, no-monitor mode and last-checkpoint mode each wrote a
\* checkpoint in the call, in that order
AllModesWrote(e) ==
    /\ e.ran
    /\ Len(Writes(e)) = 3
    /\ Writes(e)[1].stem # LastTemplate
    /\ Writes(e)[2].stem # LastTemplate
    /\ Writes(e)[3].stem = LastTemplate

C19_ResolvedOnce ==
    [][/\ ~IsNone(cb.dirpath) => cb'.dirpath = cb.dirpath
       /\ SaveStep =>
              \A i \in 1..Len(Writes(ev')) :
                  /\ ~IsNone(cb'.dirpath)
                  /\ Writes(ev')[i].dir = Val(cb'.dirpath)
       /\ \A f \in fs' : ~IsNone(cb'.dirpath) /\ f.dir = Val(cb'.dirpath)]_vars

\* on_pretrain_routine_start has run again, after checkpoints were saved to
\* the directory resolved without a logger, under a trainer with a logger
\* and a weights_save_path of its own
C19_Witness ==
    /\ ev.op = "on_pretrain_routine_start"
    /\ ~IsNone(ev.t.dirs.logger)
    /\ ev.t.dirs.weights_save_path = "/w"
    /\ cb.dirpath = Some(RootDir)
    /\ fs # {}
    /\ \A f \in fs : f.dir = RootDir

\* C20: after on_pretrain_routine_start has run on every participant, all
\* participants hold the dirpath of the primary participant, whatever logger
\* name, logger version or save root each one computed locally, with or
\* without a logger.
C20_SameDirpath ==
    ev.op = "on_pretrain_routine_start" =>
        \A r \in 1..Len(peers) : peers[r].dirpath = cb.dirpath

\* C21: in a run of several participants that see the same metrics while
\* their own storage may answer existence checks differently, every
\* participant chooses the paths the primary participant chooses in every
\* save_checkpoint call, and the keys of best_k_models, kth_best_model_path
\* and best_model_path are the same on all participants after every call.
C21_SamePaths ==
    \A r \in 1..Len(peers) :
        /\ ev.ran => Writes(ev.others[r]) = Writes(ev)
        /\ Keys(peers[r].best_k_models) = Keys(cb.best_k_models)
        /\ peers[r].kth_best_model_path = cb.kth_best_model_path
        /\ peers[r].best_model_path = cb.best_model_path

\* a call in which a participant whose own storage is empty chose, like the
\* primary participant, a path with a version suffix, the plain path being
\* taken on the storage of the primary participant
C21_Witness ==
    /\ ev.ran /\ ev.raised = "" /\ Len(peers) >= 1
    /\ ev.others[1].before = {}
    /\ Len(Writes(ev)) >= 1
    /\ ~IsNone(Writes(ev)[1].ver)
    /\ [Writes(ev)[1] EXCEPT !.ver = None] \in fs
    /\ Writes(ev.others[1]) = Writes(ev)

\* no-monitor mode runs with a previous best_model_path that is set, differs
\* from the new path and is not on storage: its removal is requested
RemovalOfMissing ==
    /\ SaveStep /\ cb.save_function
    /\ IsNone(cb.monitor) /\ IsNone(cb.save_top_k) /\ IsNone(cb'.monitor)
    /\ cb.best_model_path # EmptyPath
    /\ cb.best_model_path \notin fs
    /\ cb.best_model_path # cb'.best_model_path

\* C22: only the primary participant removes files: a save_checkpoint call
\* on another participant removes nothing from the storage it sees; and a
\* removal requested for a path that is not on storage raises nothing and
\* changes neither the storage nor the retention state: the call goes on
\* as if no removal had been requested.
C22_PrimaryRemoves ==
    [][/\ SaveStep =>
              \A r \in 1..Len(peers) :
                  /\ ev'.others[r].after = ev'.others[r].before
                  /\ \A i \in 1..Len(ev'.others[r].io) : ev'.others[r].io[i].op # "rm"
       /\ RemovalOfMissing =>
              /\ ev'.raised = ""
              /\ Removed(ev') = {}
              /\ fs' = fs \cup {Writes(ev')[i] : i \in 1..Len(Writes(ev'))}
              /\ cb' = [cb EXCEPT !.best_model_path = Writes(ev')[1],
                                  !.last_model_path = IF cb.save_last
                                                      THEN Writes(ev')[Len(Writes(ev'))]
                                                      ELSE @,
                                  !.last_global_step_saved = ev'.t.global_step]]_vars

\* a call in which the primary participant removed a file that the other
\* participant, on the same storage, saw and left alone
C22_Witness ==
    /\ ev.ran /\ ev.raised = "" /\ Len(peers) >= 1
    /\ Removed(ev) # {}
    /\ Removed(ev) \subseteq ev.others[1].before
    /\ Len(ev.others[1].io) >= 1

\* a call in which the removal of a path that is not on storage was requested
C22_WitnessMissing ==
    /\ ev.ran /\ ev.raised = "" /\ IsNone(cb.monitor) /\ IsNone(cb.save_top_k)
    /\ Len(Writes(ev)) = 2
    /\ Writes(ev)[1].step = 1
    /\ Removed(ev) = {}
    /\ Cardinality(OtherFiles(fs)) = 1

\* mode, save_last and the two cadences are left as they are by the step
CadenceAndModeKept ==
    /\ cb'.mode = cb.mode
    /\ cb'.save_last = cb.save_last
    /\ cb'.every_n_train_steps = cb.every_n_train_steps
    /\ cb'.every_n_val_epochs = cb.every_n_val_epochs

\* C23 as stated: monitor, mode, save_top_k, save_last and the two cadences
\* keep the values given at construction across every step.
C23_Immutable ==
    [][/\ CadenceAndModeKept
       /\ cb'.monitor = cb.monitor
       /\ cb'.save_top_k = cb.save_top_k]_vars

\* C23 as amended: mode, save_last and the two cadences never change;
\* monitor changes only in a save_checkpoint call that finds it None with
\* val_loss among the metrics, and becomes val_loss; save_top_k changes
\* only in a save_checkpoint call that finds it None with the monitor set
\* (at construction or by this call), and becomes 1.
C23_ConfigKept ==
    [][/\ CadenceAndModeKept
       /\ cb'.monitor = IF SaveStep /\ IsNone(cb.monitor) /\ In("val_loss", ev'.t.metrics)
                        THEN Some("val_loss") ELSE cb.monitor
       /\ cb'.save_top_k = IF SaveStep /\ IsNone(cb.save_top_k) /\ ~IsNone(cb'.monitor)
                           THEN Some(1) ELSE cb.save_top_k]_vars

\* a save_checkpoint call has set the monitor and save_top_k of the
\* default configuration with save_last
C23_Witness ==
    /\ ev.ran /\ cb.save_last
    /\ cb.monitor = Some("val_loss") /\ cb.save_top_k = Some(1)
    /\ In("val_loss", ev.t.metrics)

\* C24: in each save mode the new checkpoint is saved before the file it
\* supersedes is removed: every removal of a save_checkpoint call comes
\* right after the save of the mode's new checkpoint (top-K mode: the
\* chosen path and the evicted one; no-monitor mode: the new and the
\* previous best_model_path; last-checkpoint mode: the new and the previous
\* last_model_path), a different path, which is on storage after the call.
C24_SaveBeforeRemove ==
    [][SaveStep =>
          \A j \in 1..Len(ev'.io) :
              ev'.io[j].op = "rm" =>
                  /\ j > 1
                  /\ ev'.io[j - 1].op = "save"
                  /\ ev'.io[j - 1].path # ev'.io[j].path
                  /\ ev'.io[j - 1].path \in fs'
                  /\ IF ev'.topk.accepted
                     THEN /\ ev'.io[j].path = Val(ev'.topk.del_filepath)
                          /\ ev'.io[j - 1].path = ev'.topk.filepath
                     ELSE /\ ev'.io[j].path \in {cb.best_model_path, cb.last_model_path}
                          /\ ev'.io[j].path = cb.best_model_path
                                 => ev'.io[j - 1].path = cb'.best_model_path
                          /\ ev'.io[j].path = cb.last_model_path
                                 => ev'.io[j - 1].path = cb'.last_model_path]_vars

\* a call of top-K mode that saved the new checkpoint and then removed the
\* evicted one
C24_Witness ==
    /\ ev.ran /\ ev.raised = "" /\ ev.topk.accepted
    /\ Len(ev.io) = 2
    /\ ~IsNone(ev.topk.del_filepath)
    /\ ev.io[1] = [op |-> "save", path |-> ev.topk.filepath]
    /\ ev.io[2] = [op |-> "rm", path |-> Val(ev.topk.del_filepath)]
    /\ ev.topk.filepath \in fs

\* a is equal to b or better than b under mode, NaN ranking as the worst
\* infinity
NotWorse(mode, a, b) ==
    \/ SameValue(Ranked(mode, a), Ranked(mode, b))
    \/ StrictlyBetter(mode, Ranked(mode, a), Ranked(mode, b))

\* C25: in a run with no state restore, a save_checkpoint call in top-K
\* mode never makes best_model_score worse: after the call it is equal to
\* or better under mode than before, and the checkpoint at best_model_path
\* is removed only by a call that leaves a strictly better best_model_score.
C25_BestNeverWorse ==
    [][(SaveStep /\ ev'.topk.active /\ ev'.raised = "" /\ ~IsNone(cb.best_model_score)) =>
          /\ ~IsNone(cb'.best_model_score)
          /\ NotWorse(cb.mode, Val(cb'.best_model_score), Val(cb.best_model_score))
          /\ cb.best_model_path \in Removed(ev') =>
                 StrictlyBetter(cb.mode, Ranked(cb.mode, Val(cb'.best_model_score)),
                                Ranked(cb.mode, Val(cb.best_model_score)))]_vars

\* the best score and path the object holds are restored ones
HoldsRestored(self) ==
    [best_model_score |-> self.best_model_score,
     best_model_path |-> self.best_model_path] \in CallbackStates

\* C26: on_load_checkpoint sets best_model_score and best_model_path to the
\* restored values and leaves every other field as it was; and a later
\* save_checkpoint call with a score replaces the restored values only with
\* a strictly better best_model_score, else it leaves both as restored.
C26_Restore ==
    [][/\ (ev'.op = "on_load_checkpoint" /\ trainer' = trainer) =>
              /\ HoldsRestored(cb')
              /\ cb' = [cb EXCEPT !.best_model_score = cb'.best_model_score,
                                  !.best_model_path = cb'.best_model_path]
              /\ fs' = fs
       /\ (SaveStep /\ HoldsRestored(cb) /\ ev'.topk.active /\ ev'.raised = "") =>
              \/ /\ cb'.best_model_score = cb.best_model_score
                 /\ cb'.best_model_path = cb.best_model_path
              \/ /\ ~IsNone(cb'.best_model_score)
                 /\ StrictlyBetter(cb.mode, Ranked(cb.mode, Val(cb'.best_model_score)),
                                   Ranked(cb.mode, Val(cb.best_model_score)))]_vars

\* the value a score counts with: the float itself, NaN as the worst
\* infinity of the mode
Counted(mode, x) == [kind |-> Ranked(mode, x).kind, n |-> Ranked(mode, x).n]

\* how many entries of the dict hold the value v
CountIn(mode, d, v) == Cardinality({i \in 1..Len(d) : Counted(mode, d[i].score) = v})

\* the values held in the dicts d and e, and x
ValuesOf(mode, d, e, x) ==
    {Counted(mode, d[i].score) : i \in 1..Len(d)}
      \cup {Counted(mode, e[i].score) : i \in 1..Len(e)} \cup {Counted(mode, x)}

\* the scores of dict e are, as a multiset, the k best of the scores of
\* dict d and x: all of them when these are at most k, else k of them, none
\* left out being strictly better than one kept
KBestOf(mode, k, e, d, x) ==
    /\ Len(e) = IF Len(d) + 1 <= k THEN Len(d) + 1 ELSE k
    /\ \A v \in ValuesOf(mode, d, e, x) :
           /\ CountIn(mode, e, v) <= CountIn(mode, d, v) + (IF v = Counted(mode, x) THEN 1 ELSE 0)
           /\ CountIn(mode, e, v) < CountIn(mode, d, v) + (IF v = Counted(mode, x) THEN 1 ELSE 0)
                  => \A u \in ValuesOf(mode, d, e, x) :
                         CountIn(mode, e, u) > 0 => ~StrictlyBetter(mode, v, u)

\* C27: for finite K >= 1 the scores held in best_k_models are, as a
\* multiset, the K best under mode of the present scores submitted so far,
\* NaN counting as the worst infinity (all of them while fewer than K were
\* submitted).  Stated step by step: best_k_models starts empty, a
\* save_checkpoint call that submits a present score and returns leaves
\* the K best of the scores held before and the submitted one, and every
\* other step leaves the held scores as they are.
C27_KBest ==
    [][FiniteTopK(cb') =>
          IF SaveStep /\ ev'.topk.active /\ ~IsNone(ev'.topk.current)
          THEN ev'.raised = "" =>
                   KBestOf(cb.mode, Val(cb'.save_top_k), cb'.best_k_models, cb.best_k_models,
                           Val(ev'.topk.current))
          ELSE \A v \in ValuesOf(cb.mode, cb.best_k_models, cb'.best_k_models, PosInf(TRUE)) :
                   CountIn(cb.mode, cb'.best_k_models, v) = CountIn(cb.mode, cb.best_k_models, v)]_vars

\* C28: after every save_checkpoint call in top-K mode that returns, the
\* files written by top-K mode that are on storage are exactly the keys of
\* best_k_models.  Stated step by step: the keys are on storage after every
\* step of a run that has not failed, and of the paths tracked before a
\* top-K call or written by it, those on storage after the call are those
\* tracked after it.
C28_TrackedOnStorage ==
    [][/\ ev'.raised = "" => Keys(cb'.best_k_models) \subseteq fs'
       /\ (SaveStep /\ ev'.topk.active /\ ev'.raised = "") =>
              (Keys(cb.best_k_models) \cup SavedOthers(ev')) \cap fs'
                  = Keys(cb'.best_k_models)]_vars

\* a top-K call at capacity 2 that wrote a new file and removed the evicted
\* one: two tracked files on storage, the evicted one gone
C28_Witness ==
    /\ ev.ran /\ ev.raised = "" /\ ev.topk.accepted
    /\ cb.save_top_k = Some(2) /\ Len(cb.best_k_models) = 2
    /\ Removed(ev) # {}
    /\ Removed(ev) \cap fs = {}
    /\ Keys(cb.best_k_models) = OtherFiles(fs)

\* C29: a save_checkpoint call that fails because the save function is
\* unset leaves best_k_models, kth_best_model_path, best_model_path,
\* best_model_score and last_model_path as they were before the call.
C29_FailedSaveKeepsState ==
    [][(SaveStep /\ ev'.raised = "ValueError") =>
          /\ cb'.best_k_models = cb.best_k_models
          /\ cb'.kth_best_model_path = cb.kth_best_model_path
          /\ cb'.best_model_path = cb.best_model_path
          /\ cb'.best_model_score = cb.best_model_score
          /\ cb'.last_model_path = cb.last_model_path]_vars

====
